---- MODULE Spec2Model ----
(***************************************************************************)
(* Model of the incremental scraping pipelines of music-lyrics-llm-analysis *)
(*                                                                          *)
(*   Spec         scrape_artist_data.main : registry lookup, detail scrape, *)
(*                save; repeated runs, external termination                 *)
(*   SiblingSpec  scripts/scrape/scrape_genius.main and                     *)
(*                scripts/scrape/scrape_riaa.main, and the two other page   *)
(*                scrapers, src/scrape/scrape_riaa.main and                 *)
(*                scripts/scrape/scrape_billboard.main                      *)
(*   LookupSpec   find_musicbrainz_url applied to registry responses        *)
(*   ExpandSpec   expand_with_dict and the construction of the artist table *)
(*                (main, lines 152-205) applied to tables and mappings      *)
(*                                                                          *)
(* Strings that the code transforms (lower, strip, split) are sequences of  *)
(* one-character strings, so that the transformations are computed.         *)
(***************************************************************************)
EXTENDS Integers, Sequences, FiniteSets, TLC

\* ------------------------------------------------------------------ bounds
\* rows of the artist snapshot
NumRows == 2
\* rows of the songs snapshot (scrape_genius)
NumSongs == 3
\* rows df_songs.sample draws; stands for the 400 of line 130, scaled to
\* NumSongs
SampleSize == 2
\* periods (year, month range) of the RIAA loop
NumPeriods == 2
\* candidates in one registry answer (LookupSpec)
MaxCands == 2
\* rows of the table given to expand_with_dict (ExpandSpec)
MaxTableRows == 2
\* keys of the mapping given to expand_with_dict (ExpandSpec)
MaxKeys == 2

\* --------------------------------------------------------- program constants
\* time.sleep(30) after a falsy registry result
EmptyBackoff == 30
\* time.sleep(10) in the except branch of both artist loops
FailBackoff == 10
\* if res.status_code==200
StatusOk == 200
\* matches[0]["score"]==100
ExactScore == 100
\* time.sleep(30) after an error dict in scrape_riaa
RiaaErrorSleep == 30
\* time.sleep(30) after an error dict or an exception in scrape_billboard
BillboardErrorSleep == 30
\* chart_weeks = ['1986-08-31', '1999-05-16']
NumChartWeeks == 2

\* ------------------------------------------------------------------ state
VARIABLES
    \* scrape_artist_data
    disk,      \* the snapshot file at artist_path
    df,        \* df_artists of the running (or last) process
    pc,        \* "idle", "stage1", "stage2", "done", "killed", "aborted"
    work,      \* the index the current for loop iterates over
    idx,       \* position of the loop in work
    log,       \* this run's handled items, in order
    loaded,    \* the snapshot as the current run read it
    writes,    \* to_parquet calls of the current run
    scraped,   \* rows whose detail scrape completed in a run that saved
    \* which program a specification runs: "artist", "genius", "riaa",
    \* "riaa_old" (src/scrape/scrape_riaa), "billboard", "lookup", "expand"
    script,
    \* scrape_genius
    gexists,   \* os.path.exists(output_path)
    gdisk,     \* the songs snapshot file
    gdf,       \* df_songs
    gpc,       \* "idle", "search", "lyrics", "done", "aborted"
    gwork,     \* the index the current loop iterates over
    gidx,      \* position of the loop in gwork
    gcause,    \* what ended an aborted run: "none", "sample", "row"
    \* scripts/scrape/scrape_riaa and src/scrape/scrape_riaa
    rpc,        \* "idle", "loop", "done", "aborted"
    rperiod,    \* the period (year, month range) the loop is at
    riaa_data,  \* the accumulator
    rout,       \* the accumulator as line 124 wrote it
    rslept,     \* seconds slept after error pages
    rcause,     \* what ended an aborted run: "none", "request", "extend"
    rfetched,   \* rows of the pages this run fetched without error
    \* scripts/scrape/scrape_billboard
    bpc,            \* "idle", "loop", "done"
    bweek,          \* position of the loop in chart_weeks
    billboard_data, \* the accumulator
    bout,           \* the accumulator as line 122 wrote it
    bslept,         \* seconds slept after errors
    bfetched,       \* rows of the pages this run fetched without error
    \* one call of find_musicbrainz_url (LookupSpec)
    lpc,        \* "off", "idle", "ready", "done"
    lname,      \* the argument artist_name
    lres,       \* what requests.get gave
    lidx,       \* idx of lines 57-62, from 1; 0 when no candidate is selected
    lout,       \* what the call returned or raised
    \* one call of expand_with_dict, or of lines 152-205 (ExpandSpec)
    epc,        \* "off", "idle", "ready", "expanded", "built"
    edf,        \* the argument df: its columns in order and its rows
    emap,       \* the argument mapping (chat_dict)
    eout,       \* expand_with_dict(df, "artist", mapping)
    eout2,      \* expand_with_dict(eout, "artist", mapping)
    ebuilt      \* df_artists after line 205

artistVars == <<disk, df, pc, work, idx, log, loaded, writes, scraped>>

geniusVars == <<gexists, gdisk, gdf, gpc, gwork, gidx, gcause>>

riaaVars == <<rpc, rperiod, riaa_data, rout, rslept, rcause, rfetched>>

billboardVars == <<bpc, bweek, billboard_data, bout, bslept, bfetched>>

lookupVars == <<lpc, lname, lres, lidx, lout>>

\* the variables of the specifications of single functions
expandVars == <<epc, edf, emap, eout, eout2, ebuilt>>

otherVars == <<lookupVars, expandVars, billboardVars>>

vars == <<artistVars, script, geniusVars, riaaVars, otherVars>>

\* ------------------------------------------------------------------ values
\* Python None / pandas null (what x != x selects).  A one-element sequence
\* whose element is not a character, so it differs from every string, the
\* empty string included.
None == <<"None">>

IsNull(v) == v = None

Rows == 1 .. NumRows

\* the artist column: distinct names "Ab", "Abb", ...
ArtistName(r) == <<"A">> \o [i \in 1 .. r |-> "b"]

RegistryFields ==
    {"type", "gender", "country", "time_begin", "time_end",
     "begin_area_id", "end_area_id", "mb_id"}

DetailFields == {"wikidata_id", "discogs_id", "genius_url"}

Columns == {"artist"} \cup RegistryFields \cup DetailFields

\* a row as lines 204-205 create it: every enrichment column None
FreshRow(r) == [c \in Columns |-> IF c = "artist" THEN ArtistName(r) ELSE None]

\* ------------------------------------------------------- string operations
LowerChar(c) ==
    CASE c = "A" -> "a" [] c = "B" -> "b" [] c = "M" -> "m" [] c = "P" -> "p"
      [] c = "G" -> "g" [] c = "U" -> "u" [] c = "X" -> "x" [] c = "T" -> "t"
      [] OTHER -> c

\* str.lower()
Lower(s) == [i \in 1 .. Len(s) |-> LowerChar(s[i])]

RECURSIVE LStrip(_)
LStrip(s) == IF s # <<>> /\ Head(s) = " " THEN LStrip(Tail(s)) ELSE s

RECURSIVE RStrip(_)
RStrip(s) ==
    IF s # <<>> /\ s[Len(s)] = " " THEN RStrip(SubSeq(s, 1, Len(s) - 1)) ELSE s

\* str.strip()
Strip(s) == RStrip(LStrip(s))

\* s.split(sep)[-1] : the part after the last occurrence of sep
RECURSIVE SplitLast(_, _)
SplitLast(s, sep) ==
    IF \E i \in 1 .. Len(s) : s[i] = sep
    THEN SplitLast(Tail(s), sep)
    ELSE s

\* ------------------------------------------------- rapidfuzz, as line 62 uses it
\* code-point order of the characters the model uses
Alphabet == <<" ", "/", "0", "1", "7", "9", ":", "A", "B", "G", "M", "P", "Q",
              "T", "U", "X", "a", "b", "e", "g", "h", "i", "l", "m", "p", "q",
              "r", "s", "t", "u", "x">>

Ord(c) == IF \E i \in 1 .. Len(Alphabet) : Alphabet[i] = c
          THEN CHOOSE i \in 1 .. Len(Alphabet) : Alphabet[i] = c
          ELSE 0

\* s < t in Python's string order
RECURSIVE StrLess(_, _)
StrLess(s, t) ==
    IF t = <<>> THEN FALSE
    ELSE IF s = <<>> THEN TRUE
    ELSE IF Head(s) = Head(t) THEN StrLess(Tail(s), Tail(t))
    ELSE Ord(Head(s)) < Ord(Head(t))

\* str.split() : the maximal runs of non-space characters
RECURSIVE SplitWs(_, _)
SplitWs(s, cur) ==
    IF s = <<>> THEN (IF cur = <<>> THEN <<>> ELSE <<cur>>)
    ELSE IF Head(s) = " "
         THEN (IF cur = <<>> THEN <<>> ELSE <<cur>>) \o SplitWs(Tail(s), <<>>)
         ELSE SplitWs(Tail(s), Append(cur, Head(s)))

\* insertion of one token into a sorted list of tokens
RECURSIVE InsertSorted(_, _)
InsertSorted(t, ts) ==
    IF ts = <<>> THEN <<t>>
    ELSE IF StrLess(t, Head(ts)) THEN <<t>> \o ts
    ELSE <<Head(ts)>> \o InsertSorted(t, Tail(ts))

\* sorted(tokens)
RECURSIVE SortTokens(_)
SortTokens(ts) ==
    IF ts = <<>> THEN <<>> ELSE InsertSorted(Head(ts), SortTokens(Tail(ts)))

\* " ".join(tokens)
RECURSIVE JoinSp(_)
JoinSp(ts) ==
    IF ts = <<>> THEN <<>>
    ELSE IF Len(ts) = 1 THEN Head(ts)
    ELSE Head(ts) \o <<" ">> \o JoinSp(Tail(ts))

\* length of a longest common subsequence
RECURSIVE Lcs(_, _)
Lcs(s, t) ==
    IF s = <<>> \/ t = <<>> THEN 0
    ELSE IF Head(s) = Head(t) THEN 1 + Lcs(Tail(s), Tail(t))
    ELSE LET a == Lcs(Tail(s), t)
             b == Lcs(s, Tail(t))
         IN  IF a >= b THEN a ELSE b

\* fuzz.token_sort_ratio as the fraction <<numerator, denominator>> of 100:
\* the Indel similarity 2*lcs / (len1 + len2) of the sorted-token strings
\* (two empty strings are equal: 1/1)
TokenSortRatio(s1, s2) ==
    LET a == JoinSp(SortTokens(SplitWs(s1, <<>>)))
        b == JoinSp(SortTokens(SplitWs(s2, <<>>)))
    IN  IF Len(a) + Len(b) = 0 THEN <<1, 1>>
        ELSE <<2 * Lcs(a, b), Len(a) + Len(b)>>

\* score p is strictly greater than score q
RatioGreater(p, q) == p[1] * q[2] > q[1] * p[2]

\* mutant: among the choices of maximal score the last one wins
ExtractOneLast(query, choices) ==
    LET score(i) == TokenSortRatio(Lower(query), Lower(choices[i]))
    IN  CHOOSE i \in 1 .. Len(choices) :
            /\ \A j \in 1 .. Len(choices) : ~RatioGreater(score(j), score(i))
            /\ \A j \in i + 1 .. Len(choices) : RatioGreater(score(i), score(j))

\* process.extractOne(query, choices, scorer=token_sort_ratio,
\* processor=lower)[2] : the index (from 1) of the first choice of maximal
\* score; choices is non-empty
ExtractOne(query, choices) ==
    LET score(i) == TokenSortRatio(Lower(query), Lower(choices[i]))
    IN  CHOOSE i \in 1 .. Len(choices) :
            /\ \A j \in 1 .. Len(choices) : ~RatioGreater(score(j), score(i))
            /\ \A j \in 1 .. i - 1 : RatioGreater(score(i), score(j))

\* ------------------------------------------- find_musicbrainz_url (37-75)
\* What a call returns or raises.
Raised == [raised |-> TRUE, value |-> None]
Returned(v) == [raised |-> FALSE, value |-> v]

\* d[k] if "k" in d.keys() else None, with the transformation the code applies
LowerStripOrNone(d, k) ==
    IF k \in DOMAIN d THEN Strip(Lower(d[k])) ELSE None

GetOrNone(d, k) == IF k \in DOMAIN d THEN d[k] ELSE None

\* lines 65-72: the dictionary built from the selected candidate m;
\* m["life-span"] and m["id"] are read without a membership test
QueryDict(m) ==
    ("type" :> LowerStripOrNone(m, "type"))
    @@ ("gender" :> LowerStripOrNone(m, "gender"))
    @@ ("country" :> LowerStripOrNone(m, "country"))
    @@ ("time_begin" :> GetOrNone(m["life-span"], "begin"))
    @@ ("time_end" :> GetOrNone(m["life-span"], "end"))
    @@ ("begin_area_id" :>
          IF "begin-area" \in DOMAIN m THEN m["begin-area"]["id"] ELSE None)
    @@ ("end_area_id" :>
          IF "end-area" \in DOMAIN m THEN m["end-area"]["id"] ELSE None)
    @@ ("mb_id" :> Strip(Lower(m["id"])))

\* mutant: the fuzzy choice is made whatever the first score is
MatchIndexFuzzy(artist_name, matches) ==
    ExtractOne(artist_name, [i \in 1 .. Len(matches) |-> matches[i]["name"]])

\* lines 56-62: index (from 1) of the selected candidate of a non-empty list
MatchIndex(artist_name, matches) ==
    IF matches[1]["score"] = ExactScore
    THEN 1
    ELSE ExtractOne(artist_name, [i \in 1 .. Len(matches) |-> matches[i]["name"]])

\* mutant: a non-200 status raises (res.raise_for_status())
find_musicbrainz_url_raising(artist_name, res) ==
    IF res.raised THEN Raised
    ELSE IF res.status # StatusOk THEN Raised
    ELSE IF ~res.json THEN Raised
    ELSE IF "artists" \notin DOMAIN res.dict THEN Raised
    ELSE LET matches == res.dict["artists"]
         IN  IF matches = <<>> THEN Raised
             ELSE IF "life-span" \notin DOMAIN matches[1] THEN Raised
             ELSE Returned(QueryDict(matches[1]))

\* A response of requests.get: raised (network error, timeout) or an HTTP
\* response with a status, a body that is JSON or not, and the parsed body.
\* The lookups that raise (res.json(), ["artists"], [0], ["score"], ["name"],
\* ["life-span"], ["id"]) raise here.
find_musicbrainz_url(artist_name, res) ==
    IF res.raised THEN Raised
    ELSE IF res.status # StatusOk THEN Returned(None)
    ELSE IF ~res.json THEN Raised
    ELSE IF "artists" \notin DOMAIN res.dict THEN Raised
    ELSE LET matches == res.dict["artists"]
         IN  IF matches = <<>> THEN Raised
             ELSE IF "score" \notin DOMAIN matches[1] THEN Raised
             ELSE IF /\ matches[1]["score"] # ExactScore
                     /\ \E i \in 1 .. Len(matches) : "name" \notin DOMAIN matches[i]
                  THEN Raised
             ELSE LET m == matches[MatchIndex(artist_name, matches)]
                  IN  IF "life-span" \notin DOMAIN m \/ "id" \notin DOMAIN m
                      THEN Raised
                      ELSE Returned(QueryDict(m))

\* -------------------------------------------------- registry responses
EmptyDict == [k \in {} |-> None]

MbId(r) == <<" ", "M">> \o [i \in 1 .. r |-> "X"]

\* a fully populated candidate for row r, reported with score 100
ExactCandidate(r) ==
    ("score" :> 100) @@ ("name" :> ArtistName(r)) @@ ("id" :> MbId(r))
    @@ ("type" :> <<"P">>) @@ ("gender" :> <<"G", " ">>)
    @@ ("country" :> <<"U">>)
    @@ ("life-span" :> (("begin" :> <<"1", "9">>) @@ ("end" :> <<"9", "1">>)))
    @@ ("begin-area" :> ("id" :> <<"a", "1">>))
    @@ ("end-area" :> ("id" :> <<"a", "7">>))

\* a sparse candidate: only the required keys
SparseCandidate(score, name, id) ==
    ("score" :> score) @@ ("name" :> name) @@ ("id" :> id)
    @@ ("life-span" :> EmptyDict)

\* a candidate without the "life-span" key
BrokenCandidate(r) ==
    ("score" :> 100) @@ ("name" :> ArtistName(r)) @@ ("id" :> MbId(r))

Http(status, json, dict) ==
    [raised |-> FALSE, status |-> status, json |-> json, dict |-> dict]

NetworkError == [raised |-> TRUE, status |-> 0, json |-> FALSE, dict |-> EmptyDict]

\* the responses the registry may give to the query for row r
RegistryResponses(r) ==
    { NetworkError,
      Http(503, FALSE, EmptyDict),
      Http(200, FALSE, EmptyDict),
      Http(200, TRUE, "error" :> <<"x">>),
      Http(200, TRUE, "artists" :> <<>>),
      Http(200, TRUE, "artists" :> <<BrokenCandidate(r)>>),
      Http(200, TRUE, "artists" :> <<ExactCandidate(r)>>),
      Http(200, TRUE, "artists" :>
            << SparseCandidate(90, <<"B", "a">>, <<"Q", "0">>),
               SparseCandidate(80, Lower(ArtistName(r)), <<"Q", "1">>) >>) }

\* --------------------------------------------- get_artist_details (79-114)
\* A favicon list item of the relationships page: absent, or present with or
\* without the <a> element the code reads.
NoLi == [present |-> FALSE, anchor |-> FALSE, text |-> <<>>]
Li(text) == [present |-> TRUE, anchor |-> TRUE, text |-> text]
LiNoAnchor == [present |-> TRUE, anchor |-> FALSE, text |-> <<>>]

Page(status, w, d, g) ==
    [raised |-> FALSE, status |-> status, wikidata |-> w, discogs |-> d, genius |-> g]

PageError == [raised |-> TRUE, status |-> 0, wikidata |-> NoLi, discogs |-> NoLi,
              genius |-> NoLi]

\* The status of the response is never read: any body is parsed.
\* li.find("a") of an item without <a> is None, and reading it raises.
get_artist_details(mb_id, page) ==
    IF page.raised THEN Raised
    ELSE IF \E li \in {page.wikidata, page.discogs, page.genius} :
                li.present /\ ~li.anchor
    THEN Raised
    ELSE Returned(
           ("wikidata_id" :>
              IF page.wikidata.present
              THEN Strip(SplitLast(page.wikidata.text, ":")) ELSE <<>>)
           @@ ("discogs_id" :>
              IF page.discogs.present
              THEN SplitLast(page.discogs.text, "/") ELSE <<>>)
           @@ ("genius_url" :>
              IF page.genius.present THEN page.genius.text ELSE None))

\* the pages the detail request for a row may produce
DetailPages ==
    { PageError,
      Page(503, NoLi, NoLi, NoLi),
      Page(200, NoLi, NoLi, NoLi),
      Page(200, LiNoAnchor, NoLi, NoLi),
      Page(200, Li(<<"Q", ":", " ", "7">>), NoLi, NoLi),
      Page(200, Li(<<"Q", ":", " ", "7">>), Li(<<"u", "/", "9">>),
           Li(<<"g", "/", "x">>)) }

\* df.index : the rows in index order
AllRows == [r \in 1 .. NumRows |-> r]

NeedsRegistry(row) == IsNull(row["mb_id"])

NeedsDetail(row) == IsNull(row["genius_url"]) /\ ~IsNull(row["mb_id"])

\* mutant: the work-list is every row, resolved or not
PendingRegistryAll(d) == AllRows

\* line 213: df_artists.query("mb_id!=mb_id").index
PendingRegistry(d) == SelectSeq(AllRows, LAMBDA r : NeedsRegistry(d[r]))

\* mutant: the work-list ignores genius_url
PendingDetailAnyResolved(d) == SelectSeq(AllRows, LAMBDA r : ~IsNull(d[r]["mb_id"]))

\* line 236: df_artists.query("genius_url!=genius_url and mb_id==mb_id").index
PendingDetail(d) == SelectSeq(AllRows, LAMBDA r : NeedsDetail(d[r]))

\* for v in data.keys(): df_artists.loc[r, v] = data[v]
Assign(d, r, data) ==
    [d EXCEPT ![r] = [c \in Columns |-> IF c \in DOMAIN data THEN data[c] ELSE @[c]]]

Entry(stage, r, status, outcome, sleep, printed) ==
    [stage |-> stage, row |-> r, status |-> status, outcome |-> outcome,
     sleep |-> sleep, printed |-> printed]

ArtistInit ==
    /\ disk = [r \in Rows |-> FreshRow(r)]
    /\ df = [r \in Rows |-> FreshRow(r)]
    /\ pc = "idle"
    /\ work = <<>>
    /\ idx = 1
    /\ log = <<>>
    /\ loaded = [r \in Rows |-> FreshRow(r)]
    /\ writes = 0
    /\ scraped = {}

Stopped == pc \in {"idle", "done", "killed", "aborted"}

\* lines 207-213: a run without --override_data reads the snapshot and
\* computes the registry work-list
Start ==
    /\ UNCHANGED <<script, geniusVars, riaaVars, otherVars>>
    /\ Stopped
    /\ df' = disk
    /\ loaded' = disk
    /\ work' = PendingRegistry(disk)
    /\ idx' = 1
    /\ log' = <<>>
    /\ writes' = 0
    /\ pc' = "stage1"
    /\ UNCHANGED <<disk, scraped>>

\* mutant: the override run builds the table from scratch (lines 152-205,
\* every enrichment column None) and goes on to the loops and the save
StartOverrideRebuild ==
    /\ UNCHANGED <<script, geniusVars, riaaVars, otherVars>>
    /\ Stopped
    /\ df' = [r \in Rows |-> FreshRow(r)]
    /\ loaded' = [r \in Rows |-> FreshRow(r)]
    /\ work' = AllRows
    /\ idx' = 1
    /\ log' = <<>>
    /\ writes' = 0
    /\ pc' = "stage1"
    /\ UNCHANGED <<disk, scraped>>

\* lines 147-150: with --override_data, args["riaa_data"] subscripts the
\* argparse Namespace, which raises TypeError before anything is built; the
\* table of the previous process is gone, the file is what there is
StartOverride ==
    /\ UNCHANGED <<script, geniusVars, riaaVars, otherVars>>
    /\ Stopped
    /\ pc' = "aborted"
    /\ df' = disk
    /\ loaded' = disk
    /\ work' = <<>>
    /\ idx' = 1
    /\ log' = <<>>
    /\ writes' = 0
    /\ UNCHANGED <<disk, scraped>>

\* mutant: no try/except around the lookup; what it raises ends the run
RegistryItemAborting ==
    /\ UNCHANGED <<script, geniusVars, riaaVars, otherVars>>
    /\ pc = "stage1"
    /\ idx <= Len(work)
    /\ LET r == work[idx] IN
       \E res \in RegistryResponses(r) :
          LET out == find_musicbrainz_url(df[r]["artist"], res) IN
          /\ df' = IF ~out.raised /\ out.value # None
                   THEN Assign(df, r, out.value) ELSE df
          /\ pc' = IF out.raised THEN "aborted" ELSE pc
          /\ log' = Append(log,
                 IF out.raised
                 THEN Entry(1, r, res.status, "failure", 0, None)
                 ELSE IF out.value # None
                 THEN Entry(1, r, res.status, "success", 0, None)
                 ELSE Entry(1, r, res.status, "empty", EmptyBackoff, None))
    /\ idx' = idx + 1
    /\ UNCHANGED <<disk, work, loaded, writes, scraped>>

\* mutant: a falsy result is handled like a failure (diagnostic, short sleep)
RegistryItemEmptyAsFailure ==
    /\ UNCHANGED <<script, geniusVars, riaaVars, otherVars>>
    /\ pc = "stage1"
    /\ idx <= Len(work)
    /\ LET r == work[idx] IN
       \E res \in RegistryResponses(r) :
          LET out == find_musicbrainz_url(df[r]["artist"], res) IN
          /\ df' = IF ~out.raised /\ out.value # None
                   THEN Assign(df, r, out.value) ELSE df
          /\ log' = Append(log,
                 IF out.raised
                 THEN Entry(1, r, res.status, "failure", FailBackoff, df[r]["artist"])
                 ELSE IF out.value # None
                 THEN Entry(1, r, res.status, "success", 0, None)
                 ELSE Entry(1, r, res.status, "empty", FailBackoff, df[r]["artist"]))
    /\ idx' = idx + 1
    /\ UNCHANGED <<disk, pc, work, loaded, writes, scraped>>

\* lines 213-233: one iteration of the registry loop
RegistryItem ==
    /\ UNCHANGED <<script, geniusVars, riaaVars, otherVars>>
    /\ pc = "stage1"
    /\ idx <= Len(work)
    /\ LET r == work[idx] IN
       \E res \in RegistryResponses(r) :
          LET out == find_musicbrainz_url(df[r]["artist"], res) IN
          /\ df' = IF ~out.raised /\ out.value # None
                   THEN Assign(df, r, out.value) ELSE df
          /\ log' = Append(log,
                 IF out.raised
                 THEN Entry(1, r, res.status, "failure", FailBackoff, df[r]["artist"])
                 ELSE IF out.value # None
                 THEN Entry(1, r, res.status, "success", 0, None)
                 ELSE Entry(1, r, res.status, "empty", EmptyBackoff, None))
    /\ idx' = idx + 1
    /\ UNCHANGED <<disk, pc, work, loaded, writes, scraped>>

\* mutant: the snapshot is written after the registry stage
RegistryEndSaving ==
    /\ UNCHANGED <<script, geniusVars, riaaVars, otherVars>>
    /\ pc = "stage1"
    /\ idx > Len(work)
    /\ work' = PendingDetail(df)
    /\ idx' = 1
    /\ pc' = "stage2"
    /\ disk' = df
    /\ writes' = writes + 1
    /\ UNCHANGED <<df, log, loaded, scraped>>

\* mutant: the detail work-list is taken from the snapshot as it was read
RegistryEndStale ==
    /\ UNCHANGED <<script, geniusVars, riaaVars, otherVars>>
    /\ pc = "stage1"
    /\ idx > Len(work)
    /\ work' = PendingDetail(loaded)
    /\ idx' = 1
    /\ pc' = "stage2"
    /\ UNCHANGED <<disk, df, log, loaded, writes, scraped>>

\* line 236: the registry loop is exhausted; the detail work-list is computed
\* from df_artists as it is now
RegistryEnd ==
    /\ UNCHANGED <<script, geniusVars, riaaVars, otherVars>>
    /\ pc = "stage1"
    /\ idx > Len(work)
    /\ work' = PendingDetail(df)
    /\ idx' = 1
    /\ pc' = "stage2"
    /\ UNCHANGED <<disk, df, log, loaded, writes, scraped>>

\* mutant: the snapshot is written after every detail-scrape item
DetailItemSaving ==
    /\ UNCHANGED <<script, geniusVars, riaaVars, otherVars>>
    /\ pc = "stage2"
    /\ idx <= Len(work)
    /\ LET r == work[idx] IN
       \E page \in DetailPages :
          LET out == get_artist_details(df[r]["mb_id"], page) IN
          /\ df' = IF out.raised THEN df ELSE Assign(df, r, out.value)
          /\ disk' = IF out.raised THEN df ELSE Assign(df, r, out.value)
          /\ log' = Append(log,
                 IF out.raised
                 THEN Entry(2, r, page.status, "failure", FailBackoff, df[r]["artist"])
                 ELSE Entry(2, r, page.status, "success", 0, None))
    /\ idx' = idx + 1
    /\ writes' = writes + 1
    /\ UNCHANGED <<pc, work, loaded, scraped>>

\* lines 236-251: one iteration of the detail loop
DetailItem ==
    /\ UNCHANGED <<script, geniusVars, riaaVars, otherVars>>
    /\ pc = "stage2"
    /\ idx <= Len(work)
    /\ LET r == work[idx] IN
       \E page \in DetailPages :
          LET out == get_artist_details(df[r]["mb_id"], page) IN
          /\ df' = IF out.raised THEN df ELSE Assign(df, r, out.value)
          /\ log' = Append(log,
                 IF out.raised
                 THEN Entry(2, r, page.status, "failure", FailBackoff, df[r]["artist"])
                 ELSE Entry(2, r, page.status, "success", 0, None))
    /\ idx' = idx + 1
    /\ UNCHANGED <<disk, pc, work, loaded, writes, scraped>>

\* line 254: df_artists.to_parquet(artist_path)
Save ==
    /\ UNCHANGED <<script, geniusVars, riaaVars, otherVars>>
    /\ pc = "stage2"
    /\ idx > Len(work)
    /\ disk' = df
    /\ writes' = writes + 1
    /\ scraped' = scraped \cup
          {log[i].row : i \in {j \in DOMAIN log :
                                  log[j].stage = 2 /\ log[j].outcome = "success"}}
    /\ pc' = "done"
    /\ UNCHANGED <<df, work, idx, log, loaded>>

\* external termination of the process while a loop runs: nothing is written
Kill ==
    /\ UNCHANGED <<script, geniusVars, riaaVars, otherVars>>
    /\ pc \in {"stage1", "stage2"}
    /\ pc' = "killed"
    /\ work' = <<>>
    /\ idx' = 1
    /\ log' = <<>>
    /\ UNCHANGED <<disk, df, loaded, writes, scraped>>


\* ============================================================ scrape_genius
\* ------------------------------------------------------- _normalize (32-49)
\* NFKD decomposition followed by dropping the combining marks; "e^" and "a^"
\* stand for the accented letters
AccentFold(c) == CASE c = "e^" -> "e" [] c = "a^" -> "a" [] OTHER -> c

IsSpaceChar(c) == c = " "

\* \w of the characters the model uses
IsWordChar(c) == c \notin {" ", "'", ".", "&", ":", "/", "-"}

_normalize(s) ==
    IF s = <<>> THEN <<>>
    ELSE LET folded == [i \in 1 .. Len(s) |-> LowerChar(AccentFold(s[i]))]
             spaced == [i \in 1 .. Len(s) |->
                          IF IsWordChar(folded[i]) \/ IsSpaceChar(folded[i])
                          THEN folded[i] ELSE " "]
         IN  JoinSp(SplitWs(spaced, <<>>))

\* -------------------------------------------------- find_song_index (53-87)
\* one pass over the hits, comparing result[key]; indices as Python counts
\* them (from 0), -1 for no match; a missing key raises
RECURSIVE SongPass(_, _, _, _, _)
SongPass(hits, i, key, target_title, target_artist) ==
    IF i > Len(hits) THEN Returned(-1)
    ELSE LET hit == hits[i] IN
         IF "type" \notin DOMAIN hit THEN Raised
         ELSE IF hit["type"] # "song"
         THEN SongPass(hits, i + 1, key, target_title, target_artist)
         ELSE IF "result" \notin DOMAIN hit THEN Raised
         ELSE IF key \notin DOMAIN hit["result"] \/ "title" \notin DOMAIN hit["result"]
         THEN Raised
         ELSE IF /\ _normalize(hit["result"][key]) = target_artist
                 /\ _normalize(hit["result"]["title"]) = target_title
         THEN Returned(i - 1)
         ELSE SongPass(hits, i + 1, key, target_title, target_artist)

find_song_index(hits, song_name, artist_name) ==
    LET tt == _normalize(song_name)
        ta == _normalize(artist_name)
        first == SongPass(hits, 1, "artist_names", tt, ta)
    IN  IF first.raised THEN Raised
        ELSE IF first.value # -1 THEN first
        ELSE SongPass(hits, 1, "primary_artist_names", tt, ta)

\* -------------------------------------------------- get_lyrics_data (11-28)
\* s.startswith(h)
StartsWith(s, h) == Len(h) <= Len(s) /\ SubSeq(s, 1, Len(h)) = h

\* s.replace(h, "")
RECURSIVE RemoveAll(_, _)
RemoveAll(s, h) ==
    IF h = <<>> \/ s = <<>> THEN s
    ELSE IF StartsWith(s, h) THEN RemoveAll(SubSeq(s, Len(h) + 1, Len(s)), h)
    ELSE <<Head(s)>> \o RemoveAll(Tail(s), h)

\* A lyrics page: raised, or a response with a status and, in the body, the
\* lyrics container (its joined lines) and inside it the header block.
\* soup.find(...) of a missing element is None, and reading it raises.
LyricsPage(status, container, header, lines, headerLines) ==
    [raised |-> FALSE, status |-> status, container |-> container,
     header |-> header, lines |-> lines, headerLines |-> headerLines]

LyricsError == [raised |-> TRUE, status |-> 0, container |-> FALSE,
                header |-> FALSE, lines |-> <<>>, headerLines |-> <<>>]

get_lyrics_data(url_song, page) ==
    IF page.raised THEN Raised
    ELSE IF page.status # StatusOk THEN Returned(None)
    ELSE IF ~page.container \/ ~page.header THEN Raised
    ELSE Returned(RemoveAll(page.lines, page.headerLines))

LyricsPages ==
    { LyricsError,
      LyricsPage(404, FALSE, FALSE, <<>>, <<>>),
      LyricsPage(200, FALSE, FALSE, <<>>, <<>>),
      LyricsPage(200, TRUE, FALSE, <<"l", "a">>, <<>>),
      LyricsPage(200, TRUE, TRUE, <<"h">>, <<"h">>),
      LyricsPage(200, TRUE, TRUE, <<"h", "l", "a">>, <<"h">>) }

\* ------------------------------------------------------- songs and responses
Songs == 1 .. NumSongs

SongTitle(i) == <<"S">> \o [k \in 1 .. i |-> "a"]

SongArtist(i) == <<"B", "e^">> \o [k \in 1 .. i |-> "b"]

SongColumns == {"artist", "song", "genius_artist", "genius_song", "genius_url", "lyrics"}

\* lines 122-127: a row as it is created from the Billboard data
FreshSong(i) ==
    [c \in SongColumns |->
        CASE c = "artist" -> SongArtist(i) [] c = "song" -> SongTitle(i) [] OTHER -> None]

Hit(type, artist_names, primary, title) ==
    ("type" :> type)
    @@ ("result" :> (("artist_names" :> artist_names)
                     @@ ("primary_artist_names" :> primary)
                     @@ ("title" :> title)
                     @@ ("url" :> <<"u", "/">> \o title)))

SearchOk(hits) ==
    [raised |-> FALSE, json |-> TRUE, dict |-> ("response" :> ("hits" :> hits))]

\* the responses of the search API to a query about row i
SearchResponses(i) ==
    { [raised |-> TRUE, json |-> FALSE, dict |-> EmptyDict],
      [raised |-> FALSE, json |-> FALSE, dict |-> EmptyDict],
      [raised |-> FALSE, json |-> TRUE, dict |-> ("error" :> <<"x">>)],
      SearchOk(<<>>),
      SearchOk(<<("type" :> "song")>>),
      SearchOk(<< Hit("album", SongArtist(i), SongArtist(i), SongTitle(i)),
                  Hit("song", <<"b", "e">> \o [k \in 1 .. i |-> "b"] \o <<".">>,
                      <<"x">>, <<" ">> \o SongTitle(i)) >>),
      SearchOk(<< Hit("song", SongArtist(i) \o <<" ", "&", " ", "x">>,
                      SongArtist(i), SongTitle(i)) >>) }

\* lines 137-142 and 153-158: one search request and the lookup of the exact
\* hit; returns the matching hit's result, None for no match, or raises
SearchOnce(res, song_name, artist_name) ==
    IF res.raised \/ ~res.json THEN Raised
    ELSE IF "response" \notin DOMAIN res.dict THEN Raised
    ELSE IF "hits" \notin DOMAIN res.dict["response"] THEN Raised
    ELSE LET hits == res.dict["response"]["hits"]
             found == find_song_index(hits, song_name, artist_name)
         IN  IF found.raised THEN Raised
             ELSE IF found.value = -1 THEN Returned(None)
             ELSE Returned(hits[found.value + 1]["result"])


\* ------------------------------------------------------ scrape_genius.main
GeniusInit ==
    /\ gexists = FALSE
    /\ gdisk = [i \in Songs |-> FreshSong(i)]
    /\ gdf = [i \in Songs |-> FreshSong(i)]
    /\ gpc = "idle"
    /\ gwork = <<>>
    /\ gidx = 1
    /\ gcause = "none"

\* the orders in which df.sample(n) can return n distinct rows
Samples(n) ==
    {q \in [1 .. n -> Songs] : \A a, b \in 1 .. n : a # b => q[a] # q[b]}

NeedsSearch(row) == IsNull(row["genius_url"])

NeedsLyrics(row) == ~IsNull(row["genius_url"]) /\ IsNull(row["lyrics"])

AllSongs == [i \in 1 .. NumSongs |-> i]

GAbort(cause) ==
    /\ gpc' = "aborted"
    /\ gcause' = cause
    /\ gwork' = <<>>
    /\ gidx' = 1
    /\ UNCHANGED <<gexists, gdisk, gdf>>

\* lines 116-130: load or create df_songs, then draw the sample the search
\* loop iterates over; sample raises ValueError on fewer rows than it draws
GStart ==
    /\ UNCHANGED <<script, artistVars, riaaVars, otherVars>>
    /\ script = "genius"
    /\ gpc \in {"idle", "done", "aborted"}
    /\ LET loadedSongs == IF gexists THEN gdisk ELSE [i \in Songs |-> FreshSong(i)] IN
       IF SampleSize > NumSongs
       THEN /\ gpc' = "aborted"
            /\ gcause' = "sample"
            /\ gdf' = loadedSongs
            /\ gwork' = <<>>
            /\ gidx' = 1
            /\ UNCHANGED <<gexists, gdisk>>
       ELSE \E q \in Samples(SampleSize) :
            /\ gdf' = loadedSongs
            /\ gwork' = SelectSeq(q, LAMBDA i : NeedsSearch(loadedSongs[i]))
            /\ gidx' = 1
            /\ gpc' = "search"
            /\ gcause' = "none"
            /\ UNCHANGED <<gexists, gdisk>>

\* lines 146-148 and 162-164
WriteHit(d, i, result) ==
    [d EXCEPT ![i] = [@ EXCEPT !["genius_artist"] = result["artist_names"],
                               !["genius_song"] = result["title"],
                               !["genius_url"] = result["url"]]]

\* lines 130-164: one iteration of the search loop; nothing catches what the
\* requests, res.json() or the lookups raise
GSearchItem ==
    /\ UNCHANGED <<script, artistVars, riaaVars, otherVars>>
    /\ script = "genius"
    /\ gpc = "search"
    /\ gidx <= Len(gwork)
    /\ LET i == gwork[gidx]
           song_name == gdf[i]["song"]
           artist_name == gdf[i]["artist"]
       IN  \E res1 \in SearchResponses(i), res2 \in SearchResponses(i) :
           LET first == SearchOnce(res1, song_name, artist_name)
               second == SearchOnce(res2, song_name, artist_name)
           IN  IF first.raised THEN GAbort("row")
               ELSE IF first.value # None
               THEN /\ gdf' = WriteHit(gdf, i, first.value)
                    /\ gidx' = gidx + 1
                    /\ UNCHANGED <<gexists, gdisk, gpc, gwork, gcause>>
               ELSE IF second.raised THEN GAbort("row")
               ELSE /\ gdf' = IF second.value # None
                              THEN WriteHit(gdf, i, second.value) ELSE gdf
                    /\ gidx' = gidx + 1
                    /\ UNCHANGED <<gexists, gdisk, gpc, gwork, gcause>>

\* line 167: the lyrics work-list
GSearchEnd ==
    /\ UNCHANGED <<script, artistVars, riaaVars, otherVars>>
    /\ script = "genius"
    /\ gpc = "search"
    /\ gidx > Len(gwork)
    /\ gwork' = SelectSeq(AllSongs, LAMBDA i : NeedsLyrics(gdf[i]))
    /\ gidx' = 1
    /\ gpc' = "lyrics"
    /\ UNCHANGED <<gexists, gdisk, gdf, gcause>>

\* lines 167-177: one iteration of the lyrics loop
GLyricsItem ==
    /\ UNCHANGED <<script, artistVars, riaaVars, otherVars>>
    /\ script = "genius"
    /\ gpc = "lyrics"
    /\ gidx <= Len(gwork)
    /\ LET i == gwork[gidx] IN
       \E page \in LyricsPages :
          LET out == get_lyrics_data(gdf[i]["genius_url"], page) IN
          IF out.raised THEN GAbort("row")
          ELSE /\ gdf' = IF out.value # None /\ out.value # <<>>
                         THEN [gdf EXCEPT ![i]["lyrics"] = out.value] ELSE gdf
               /\ gidx' = gidx + 1
               /\ UNCHANGED <<gexists, gdisk, gpc, gwork, gcause>>

\* line 181
GSave ==
    /\ UNCHANGED <<script, artistVars, riaaVars, otherVars>>
    /\ script = "genius"
    /\ gpc = "lyrics"
    /\ gidx > Len(gwork)
    /\ gdisk' = gdf
    /\ gexists' = TRUE
    /\ gpc' = "done"
    /\ UNCHANGED <<gdf, gwork, gidx, gcause>>


\* ============================================== scripts/scrape/scrape_riaa
\* A value of a Python dict of the scraper: a list, or (for "error") a number.
ListVal(items) == [isList |-> TRUE, items |-> items]
IntVal(n) == [isList |-> FALSE, items |-> <<n>>]

RiaaColumns == {"artist", "category", "name", "release_year"}

\* lines 16 and 82: {"artist": [], "category": [], "name": [], "release_year": []}
EmptyPageData == [k \in RiaaColumns |-> ListVal(<<>>)]

\* A table row of the awards page: the artist cell and the first "others"
\* cell, each present or not.
AwardRow(artist, name) ==
    [hasArtist |-> TRUE, artist |-> artist, hasName |-> TRUE, name |-> name]
BrokenAwardRow ==
    [hasArtist |-> FALSE, artist |-> <<>>, hasName |-> TRUE, name |-> <<"n">>]

RiaaPage(status, table, rows) ==
    [raised |-> FALSE, status |-> status, table |-> table, rows |-> rows]

RiaaPageError == [raised |-> TRUE, status |-> 0, table |-> FALSE, rows |-> <<>>]

\* lines 37-45: the rows appended one by one; a row without the cells raises
RECURSIVE AppendRows(_, _, _, _)
AppendRows(page_data, rows, category, release_year) ==
    IF rows = <<>> THEN Returned(page_data)
    ELSE LET row == Head(rows) IN
         IF ~row.hasArtist \/ ~row.hasName THEN Raised
         ELSE AppendRows(
                [k \in RiaaColumns |->
                   ListVal(Append(page_data[k].items,
                      CASE k = "artist" -> Strip(Lower(row.artist))
                        [] k = "category" -> category
                        [] k = "name" -> Strip(Lower(row.name))
                        [] OTHER -> release_year))],
                Tail(rows), category, release_year)

\* lines 10-52
get_artists_data(page, category, release_year) ==
    IF page.raised THEN Raised
    ELSE IF page.status # StatusOk THEN Returned("error" :> IntVal(page.status))
    ELSE IF ~page.table THEN Returned(EmptyPageData)
    ELSE AppendRows(EmptyPageData, page.rows, category, release_year)

\* the pages a period's request may produce
RiaaPages ==
    { RiaaPageError,
      RiaaPage(503, FALSE, <<>>),
      RiaaPage(200, FALSE, <<>>),
      RiaaPage(200, TRUE, <<AwardRow(<<" ", "A", "b">>, <<"N", " ">>)>>),
      RiaaPage(200, TRUE, <<BrokenAwardRow>>) }

\* all(isinstance(v, list) and not v for v in d.values())
AllEmptyLists(d) == \A k \in DOMAIN d : d[k].isList /\ d[k].items = <<>>

\* for k in page.keys(): riaa_data[k] = riaa_data[k] + page[k]
\* riaa_data[k] of a key riaa_data does not have raises KeyError
Extend(acc, page) ==
    IF \E k \in DOMAIN page : k \notin DOMAIN acc \/ ~page[k].isList
    THEN Raised
    ELSE Returned([k \in DOMAIN acc |->
                     IF k \in DOMAIN page
                     THEN ListVal(acc[k].items \o page[k].items) ELSE acc[k]])

\* lines 104-106 and 109-111: extend unless every value is an empty list
ExtendIfNotEmpty(acc, page) ==
    IF AllEmptyLists(page) THEN Returned(acc) ELSE Extend(acc, page)

\* the rows of a page a fetch returned, none for a raise or an error dict
PageRows(out) ==
    IF out.raised \/ "error" \in DOMAIN out.value
    THEN 0
    ELSE Len(out.value["artist"].items)

RiaaInit ==
    /\ rpc = "idle"
    /\ rperiod = 1
    /\ riaa_data = EmptyPageData
    /\ rout = EmptyPageData
    /\ rslept = 0
    /\ rcause = "none"
    /\ rfetched = 0

\* lines 81-82
RStart ==
    /\ UNCHANGED <<script, artistVars, geniusVars, otherVars>>
    /\ script = "riaa"
    /\ rpc \in {"idle", "done", "aborted"}
    /\ rpc' = "loop"
    /\ rperiod' = 1
    /\ riaa_data' = EmptyPageData
    /\ rslept' = 0
    /\ rcause' = "none"
    /\ rfetched' = 0
    /\ UNCHANGED rout

\* an exception nothing catches ends the run
RAbort(cause) ==
    /\ rpc' = "aborted"
    /\ rcause' = cause
    /\ UNCHANGED <<rperiod, riaa_data, rout, rslept, rfetched>>

\* lines 86-115: one period; the requests and the extension are not caught
RPeriod ==
    /\ UNCHANGED <<script, artistVars, geniusVars, otherVars>>
    /\ script = "riaa"
    /\ rpc = "loop"
    /\ rperiod <= NumPeriods
    /\ \E pa \in RiaaPages, ps \in RiaaPages :
         LET album == get_artists_data(pa, <<"a">>, rperiod)
             single == get_artists_data(ps, <<"s">>, rperiod)
         IN  IF album.raised \/ single.raised THEN RAbort("request")
             ELSE IF "error" \notin DOMAIN single.value
             THEN LET withAlbum == ExtendIfNotEmpty(riaa_data, album.value) IN
                  IF withAlbum.raised THEN RAbort("extend")
                  ELSE LET withSingle == ExtendIfNotEmpty(withAlbum.value, single.value) IN
                       IF withSingle.raised THEN RAbort("extend")
                       ELSE /\ riaa_data' = withSingle.value
                            /\ rperiod' = rperiod + 1
                            /\ rfetched' = rfetched + PageRows(album) + PageRows(single)
                            /\ UNCHANGED <<rpc, rout, rslept, rcause>>
             ELSE /\ rslept' = rslept + RiaaErrorSleep
                  /\ rperiod' = rperiod + 1
                  /\ rfetched' = rfetched + PageRows(album)
                  /\ UNCHANGED <<rpc, riaa_data, rout, rcause>>

\* lines 120-124
RSave ==
    /\ UNCHANGED <<script, artistVars, geniusVars, otherVars>>
    /\ script = "riaa"
    /\ rpc = "loop"
    /\ rperiod > NumPeriods
    /\ rout' = riaa_data
    /\ rpc' = "done"
    /\ UNCHANGED <<rperiod, riaa_data, rslept, rcause, rfetched>>

\* ================================================== src/scrape/scrape_riaa
\* the earlier scraper: one page per period, in the variables of the later
AlbumColumns == {"artist", "album", "release_year"}

\* lines 16 and 79: {"artist": [], "album": [], "release_year": []}
EmptyAlbumData == [k \in AlbumColumns |-> ListVal(<<>>)]

\* lines 37-44: the rows appended one by one; a row without the cells raises
RECURSIVE AppendAlbumRows(_, _, _)
AppendAlbumRows(page_data, rows, release_year) ==
    IF rows = <<>> THEN Returned(page_data)
    ELSE LET row == Head(rows) IN
         IF ~row.hasArtist \/ ~row.hasName THEN Raised
         ELSE AppendAlbumRows(
                [k \in AlbumColumns |->
                   ListVal(Append(page_data[k].items,
                      CASE k = "artist" -> Strip(Lower(row.artist))
                        [] k = "album" -> Strip(Lower(row.name))
                        [] OTHER -> release_year))],
                Tail(rows), release_year)

\* lines 10-51
get_artists_albums(page, release_year) ==
    IF page.raised THEN Raised
    ELSE IF page.status # StatusOk THEN Returned("error" :> IntVal(page.status))
    ELSE IF ~page.table THEN Returned(EmptyAlbumData)
    ELSE AppendAlbumRows(EmptyAlbumData, page.rows, release_year)

\* lines 78-79
ROStart ==
    /\ UNCHANGED <<script, artistVars, geniusVars, otherVars>>
    /\ script = "riaa_old"
    /\ rpc \in {"idle", "done", "aborted"}
    /\ rpc' = "loop"
    /\ rperiod' = 1
    /\ riaa_data' = EmptyAlbumData
    /\ rslept' = 0
    /\ rcause' = "none"
    /\ rfetched' = 0
    /\ UNCHANGED rout

\* lines 82-105: one period; the request and the extension are not caught
ROPeriod ==
    /\ UNCHANGED <<script, artistVars, geniusVars, otherVars>>
    /\ script = "riaa_old"
    /\ rpc = "loop"
    /\ rperiod <= NumPeriods
    /\ \E page \in RiaaPages :
         LET page_data == get_artists_albums(page, rperiod) IN
         IF page_data.raised THEN RAbort("request")
         ELSE IF "error" \notin DOMAIN page_data.value
         THEN LET extended == ExtendIfNotEmpty(riaa_data, page_data.value) IN
              IF extended.raised THEN RAbort("extend")
              ELSE /\ riaa_data' = extended.value
                   /\ rperiod' = rperiod + 1
                   /\ rfetched' = rfetched + PageRows(page_data)
                   /\ UNCHANGED <<rpc, rout, rslept, rcause>>
         ELSE /\ rslept' = rslept + RiaaErrorSleep
              /\ rperiod' = rperiod + 1
              /\ UNCHANGED <<rpc, riaa_data, rout, rcause, rfetched>>

\* lines 110-114
ROSave ==
    /\ UNCHANGED <<script, artistVars, geniusVars, otherVars>>
    /\ script = "riaa_old"
    /\ rpc = "loop"
    /\ rperiod > NumPeriods
    /\ rout' = riaa_data
    /\ rpc' = "done"
    /\ UNCHANGED <<rperiod, riaa_data, rslept, rcause, rfetched>>

\* ========================================= scripts/scrape/scrape_billboard
ChartColumns == {"artist", "song", "chart_week", "position"}

\* lines 16 and 92
EmptyChartData == [k \in ChartColumns |-> ListVal(<<>>)]

\* A row of the chart: whether the fourth list item holds the span and the h3
\* the code reads first, whether the third does (the fallback), and the texts.
ChartRow(at3, at2, artist, song) ==
    [at3 |-> at3, at2 |-> at2, artist |-> artist, song |-> song]

ChartPage(status, chart, rows) ==
    [raised |-> FALSE, status |-> status, chart |-> chart, rows |-> rows]

ChartPageError == [raised |-> TRUE, status |-> 0, chart |-> FALSE, rows |-> <<>>]

\* lines 37-51: rows appended one by one with position i+1; a row that has
\* the texts in neither list item raises out of the except branch
RECURSIVE AppendChartRows(_, _, _, _)
AppendChartRows(chart_data, rows, chart_week, i) ==
    IF rows = <<>> THEN Returned(chart_data)
    ELSE LET row == Head(rows) IN
         IF ~row.at3 /\ ~row.at2 THEN Raised
         ELSE AppendChartRows(
                [k \in ChartColumns |->
                   ListVal(Append(chart_data[k].items,
                      CASE k = "artist" -> Strip(row.artist)
                        [] k = "song" -> Strip(row.song)
                        [] k = "chart_week" -> chart_week
                        [] OTHER -> i + 1))],
                Tail(rows), chart_week, i + 1)

\* lines 10-58
get_weekly_data(page, chart_week) ==
    IF page.raised THEN Raised
    ELSE IF page.status # StatusOk THEN Returned("error" :> IntVal(page.status))
    ELSE IF ~page.chart THEN Returned(EmptyChartData)
    ELSE AppendChartRows(EmptyChartData, page.rows, chart_week, 0)

\* the pages a week's request may produce
ChartPages ==
    { ChartPageError,
      ChartPage(503, FALSE, <<>>),
      ChartPage(200, FALSE, <<>>),
      ChartPage(200, TRUE, <<>>),
      ChartPage(200, TRUE, << ChartRow(TRUE, FALSE, <<" ", "A">>, <<"s">>),
                              ChartRow(FALSE, TRUE, <<"B">>, <<"t", " ">>) >>),
      ChartPage(200, TRUE, << ChartRow(TRUE, FALSE, <<"A">>, <<"s">>),
                              ChartRow(FALSE, FALSE, <<>>, <<>>) >>) }

BillboardInit ==
    /\ bpc = "idle"
    /\ bweek = 1
    /\ billboard_data = EmptyChartData
    /\ bout = EmptyChartData
    /\ bslept = 0
    /\ bfetched = 0

\* lines 89-92
BStart ==
    /\ UNCHANGED <<script, artistVars, geniusVars, riaaVars, lookupVars, expandVars>>
    /\ script = "billboard"
    /\ bpc \in {"idle", "done"}
    /\ bpc' = "loop"
    /\ bweek' = 1
    /\ billboard_data' = EmptyChartData
    /\ bslept' = 0
    /\ bfetched' = 0
    /\ UNCHANGED bout

\* lines 95-116: one week, inside try/except
BWeek ==
    /\ UNCHANGED <<script, artistVars, geniusVars, riaaVars, lookupVars, expandVars>>
    /\ script = "billboard"
    /\ bpc = "loop"
    /\ bweek <= NumChartWeeks
    /\ \E page \in ChartPages :
         LET chart_data == get_weekly_data(page, bweek) IN
         IF chart_data.raised
         THEN /\ bslept' = bslept + BillboardErrorSleep
              /\ UNCHANGED <<billboard_data, bfetched>>
         ELSE IF "error" \notin DOMAIN chart_data.value
         THEN LET extended == Extend(billboard_data, chart_data.value) IN
              IF extended.raised
              THEN /\ bslept' = bslept + BillboardErrorSleep
                   /\ UNCHANGED <<billboard_data, bfetched>>
              ELSE /\ billboard_data' = extended.value
                   /\ bfetched' = bfetched + PageRows(chart_data)
                   /\ UNCHANGED bslept
         ELSE /\ bslept' = bslept + BillboardErrorSleep
              /\ UNCHANGED <<billboard_data, bfetched>>
    /\ bweek' = bweek + 1
    /\ UNCHANGED <<bpc, bout>>

\* lines 119-122
BSave ==
    /\ UNCHANGED <<script, artistVars, geniusVars, riaaVars, lookupVars, expandVars>>
    /\ script = "billboard"
    /\ bpc = "loop"
    /\ bweek > NumChartWeeks
    /\ bout' = billboard_data
    /\ bpc' = "done"
    /\ UNCHANGED <<bweek, billboard_data, bslept, bfetched>>

\* ------------------------------------------- expand_with_dict (13-33)
\* mutant: a row whose artist is a key is kept beside the rows it expands to
ArtistListsKeepingRaw(rows, mapping) ==
    [i \in 1 .. Len(rows) |->
        IF rows[i]["artist"] \in DOMAIN mapping
        THEN <<rows[i]["artist"]>> \o mapping[rows[i]["artist"]]
        ELSE <<rows[i]["artist"]>>]

\* line 19: per row the list of artists it becomes: mapping[artist] when the
\* artist is a key (map), the one-element list of the artist otherwise (where)
ArtistLists(rows, mapping) ==
    [i \in 1 .. Len(rows) |->
        IF rows[i]["artist"] \in DOMAIN mapping
        THEN mapping[rows[i]["artist"]]
        ELSE <<rows[i]["artist"]>>]

\* mutant: explode followed by drop_duplicates on the artist
RECURSIVE ExplodeUnique(_, _)
ExplodeUnique(rows, lists) ==
    IF rows = <<>> THEN <<>>
    ELSE LET rest == ExplodeUnique(SubSeq(rows, 1, Len(rows) - 1),
                                   SubSeq(lists, 1, Len(lists) - 1))
             r == rows[Len(rows)]
             l == lists[Len(lists)]
             new == [j \in 1 .. Len(l) |-> [r EXCEPT !["artist"] = l[j]]]
         IN  rest \o SelectSeq(new, LAMBDA n :
                        \A k \in 1 .. Len(rest) : rest[k]["artist"] # n["artist"])

\* line 26: DataFrame.explode(ignore_index=True) on the list column: one row
\* per list element, in order, the other columns repeated; an empty list
\* gives one row whose value is NaN
RECURSIVE Explode(_, _)
Explode(rows, lists) ==
    IF rows = <<>> THEN <<>>
    ELSE LET r == Head(rows)
             l == Head(lists)
         IN  (IF l = <<>>
              THEN << [r EXCEPT !["artist"] = None] >>
              ELSE [j \in 1 .. Len(l) |-> [r EXCEPT !["artist"] = l[j]]])
             \o Explode(Tail(rows), Tail(lists))

\* lines 22-29: the artist column is dropped and comes back as the last one
MoveArtistLast(cols) ==
    Append(SelectSeq(cols, LAMBDA c : c # "artist"), "artist")

expand_with_dict(t, mapping) ==
    [cols |-> MoveArtistLast(t.cols),
     rows |-> Explode(t.rows, ArtistLists(t.rows, mapping))]

\* ------------------------------------ construction of the table (152-205)
Various == <<"v", "a", "r", "i", "o", "u", "s">>
Soundtrack == <<"s", "o", "u", "n", "d", "t", "r", "a", "c", "k">>

\* line 153: the artist column without 'various' and 'soundtrack',
\* drop_duplicates keeping the first occurrence
RECURSIVE UniqueArtists(_, _)
UniqueArtists(rows, seen) ==
    IF rows = <<>> THEN <<>>
    ELSE LET a == Head(rows)["artist"]
         IN  IF a \in seen \cup {Various, Soundtrack}
             THEN UniqueArtists(Tail(rows), seen)
             ELSE <<[artist |-> a]>> \o UniqueArtists(Tail(rows), seen \cup {a})

\* line 198: the keys with more than one item
MoreThanOne(chat_dict) ==
    [k \in {key \in DOMAIN chat_dict : Len(chat_dict[key]) > 1} |-> chat_dict[k]]

\* lines 153-205 on the RIAA frame df and the split mapping chat_dict
BuildArtists(rows, chat_dict) ==
    LET df_artists == [cols |-> <<"artist">>, rows |-> UniqueArtists(rows, {})]
        expanded == expand_with_dict(df_artists, MoreThanOne(chat_dict))
    IN  [i \in 1 .. Len(expanded.rows) |->
            [c \in Columns |->
                IF c = "artist" THEN expanded.rows[i]["artist"] ELSE None]]

\* artist names of the RIAA frame and the names they split into
NameA == <<"a">>
NameB == <<"b">>
NameC == <<"c">>
NameAB == <<"a", "&", "b">>
NameCB == <<"c", "&", "b">>

TableArtists == {NameA, NameAB, NameCB, Various}

\* a second column, so that rows of one artist can differ
TableRows == [artist : TableArtists, x : {1, 2}]

Tables ==
    { [cols |-> <<"artist", "x">>, rows |-> rs] :
        rs \in UNION { [1 .. n -> TableRows] : n \in 0 .. MaxTableRows } }

MappingKeys == {NameA, NameAB, NameCB}

MappingValues == { <<>>, <<NameA>>, <<NameA, NameB>>, <<NameC, NameB>> }

Mappings ==
    UNION { [K -> MappingValues] :
              K \in {S \in SUBSET MappingKeys : Cardinality(S) <= MaxKeys} }

EmptyTable == [cols |-> <<>>, rows |-> <<>>]

ExpandIdle(p) ==
    /\ epc = p
    /\ edf = EmptyTable
    /\ emap = EmptyDict
    /\ eout = EmptyTable
    /\ eout2 = EmptyTable
    /\ ebuilt = <<>>

\* no call in flight: the state of the expander variables in the pipelines
ExpandOff == ExpandIdle("off")

ExpandInit == ExpandIdle("idle")

\* a frame and a mapping are at hand
ExpandCall ==
    /\ epc = "idle"
    /\ epc' = "ready"
    /\ edf' \in Tables
    /\ emap' \in Mappings
    /\ UNCHANGED <<eout, eout2, ebuilt>>
    /\ UNCHANGED <<script, artistVars, geniusVars, riaaVars, lookupVars, billboardVars>>

\* expand_with_dict on the frame, and once more on its own result
Expand ==
    /\ epc = "ready"
    /\ epc' = "expanded"
    /\ eout' = expand_with_dict(edf, emap)
    /\ eout2' = expand_with_dict(expand_with_dict(edf, emap), emap)
    /\ UNCHANGED <<edf, emap, ebuilt>>
    /\ UNCHANGED <<script, artistVars, geniusVars, riaaVars, lookupVars, billboardVars>>

\* lines 153-205 on the frame
Build ==
    /\ epc = "ready"
    /\ epc' = "built"
    /\ ebuilt' = BuildArtists(edf.rows, emap)
    /\ UNCHANGED <<edf, emap, eout, eout2>>
    /\ UNCHANGED <<script, artistVars, geniusVars, riaaVars, lookupVars, billboardVars>>

ExpandReturn ==
    /\ epc \in {"expanded", "built"}
    /\ epc' = "idle"
    /\ edf' = EmptyTable
    /\ emap' = EmptyDict
    /\ eout' = EmptyTable
    /\ eout2' = EmptyTable
    /\ ebuilt' = <<>>
    /\ UNCHANGED <<script, artistVars, geniusVars, riaaVars, lookupVars, billboardVars>>

\* ------------------------------------- one call of find_musicbrainz_url
\* the artist names the function is called with
LookupNames ==
    { <<"A", "b">>,
      <<"b", " ", "A">>,
      <<"b", "e", "a", "t", "l", "e", "s">> }

\* the names the registry lists
CandidateNames ==
    { <<"a", "b">>,
      <<"A", " ", "b">>,
      <<"A", "b", "b">>,
      <<"x">>,
      <<"T", "h", "e", " ", "B", "e", "a", "t", "l", "e", "s">>,
      <<"B", "e", "a", "t", "l", "e", "s", " ", "T", "r", "i", "b", "u", "t", "e">> }

\* the registry's own relevance score of a candidate
CandidateScores == {ExactScore, 90}

Candidates ==
    { SparseCandidate(sc, n, <<"Q">> \o n) :
        sc \in CandidateScores, n \in CandidateNames }

\* the candidate lists of at most MaxCands entries, the empty one included
CandidateLists ==
    UNION { [1 .. n -> Candidates] : n \in 0 .. MaxCands }

LookupResponses ==
    { NetworkError, Http(503, FALSE, EmptyDict) }
    \cup { Http(200, TRUE, "artists" :> ms) : ms \in CandidateLists }

\* the response carries a parsed list of candidates
HasCandidateList(res) ==
    /\ ~res.raised
    /\ res.status = StatusOk
    /\ res.json
    /\ "artists" \in DOMAIN res.dict

\* no call in flight: the state of the lookup variables in the pipelines
LookupOff ==
    /\ lpc = "off"
    /\ lname = <<>>
    /\ lres = NetworkError
    /\ lidx = 0
    /\ lout = Raised

\* the loop of line 213 is between two rows
LookupInit ==
    /\ lpc = "idle"
    /\ lname = <<>>
    /\ lres = NetworkError
    /\ lidx = 0
    /\ lout = Raised

\* line 216 calls the function with a row's artist; requests.get answers
LookupCall ==
    /\ lpc = "idle"
    /\ lpc' = "ready"
    /\ lname' \in LookupNames
    /\ lres' \in LookupResponses
    /\ UNCHANGED <<lidx, lout>>
    /\ UNCHANGED <<script, artistVars, geniusVars, riaaVars, expandVars, billboardVars>>

\* lines 50-75 on the answer lres
Lookup ==
    /\ lpc = "ready"
    /\ lout' = find_musicbrainz_url(lname, lres)
    /\ lidx' = IF HasCandidateList(lres) /\ lres.dict["artists"] # <<>>
               THEN MatchIndex(lname, lres.dict["artists"])
               ELSE 0
    /\ lpc' = "done"
    /\ UNCHANGED <<lname, lres>>
    /\ UNCHANGED <<script, artistVars, geniusVars, riaaVars, expandVars, billboardVars>>

\* the loop of line 213 goes on to the next row
LookupNextRow ==
    /\ lpc = "done"
    /\ lpc' = "idle"
    /\ lname' = <<>>
    /\ lres' = NetworkError
    /\ lidx' = 0
    /\ lout' = Raised
    /\ UNCHANGED <<script, artistVars, geniusVars, riaaVars, expandVars, billboardVars>>

Init ==
    /\ ArtistInit
    /\ GeniusInit
    /\ RiaaInit
    /\ LookupOff
    /\ ExpandOff
    /\ BillboardInit
    /\ script = "artist"

\* runs of scrape_artist_data.main, one after another, each possibly terminated
Next ==
    \/ Start
    \/ StartOverride
    \/ RegistryItem
    \/ RegistryEnd
    \/ DetailItem
    \/ Save
    \/ Kill

Spec == Init /\ [][Next]_vars

SiblingInit ==
    /\ ArtistInit
    /\ GeniusInit
    /\ RiaaInit
    /\ LookupOff
    /\ ExpandOff
    /\ BillboardInit
    /\ script \in {"genius", "riaa", "riaa_old", "billboard"}

\* runs of scrape_genius.main or of one of the page scrapers
SiblingNext ==
    \/ GStart
    \/ GSearchItem
    \/ GSearchEnd
    \/ GLyricsItem
    \/ GSave
    \/ RStart
    \/ RPeriod
    \/ RSave
    \/ ROStart
    \/ ROPeriod
    \/ ROSave
    \/ BStart
    \/ BWeek
    \/ BSave

SiblingSpec == SiblingInit /\ [][SiblingNext]_vars

LookupSpecInit ==
    /\ ArtistInit
    /\ GeniusInit
    /\ RiaaInit
    /\ LookupInit
    /\ ExpandOff
    /\ BillboardInit
    /\ script = "lookup"

\* calls of find_musicbrainz_url, one after another
LookupNext ==
    \/ LookupCall
    \/ Lookup
    \/ LookupNextRow

LookupSpec == LookupSpecInit /\ [][LookupNext]_vars

ExpandSpecInit ==
    /\ ArtistInit
    /\ GeniusInit
    /\ RiaaInit
    /\ LookupOff
    /\ ExpandInit
    /\ BillboardInit
    /\ script = "expand"

\* calls of expand_with_dict and of the table construction
ExpandNext ==
    \/ ExpandCall
    \/ Expand
    \/ Build
    \/ ExpandReturn

ExpandSpec == ExpandSpecInit /\ [][ExpandNext]_vars

\* ================================================================== claims
\* the entries of this run's log for one stage, in order
StageLog(k) == SelectSeq(log, LAMBDA e : e.stage = k)

RowsOf(q) == [i \in 1 .. Len(q) |-> q[i].row]

\* how often this run handled row r in stage k
Count(k, r) == Cardinality({i \in DOMAIN log : log[i].stage = k /\ log[i].row = r})

StageFields(k) == IF k = 1 THEN RegistryFields ELSE DetailFields

C2_RegistryOncePerNullRow ==
    pc \in {"stage1", "stage2", "done"} =>
        \A r \in Rows :
            IF IsNull(loaded[r]["mb_id"])
            THEN /\ Count(1, r) <= 1
                 /\ pc \in {"stage2", "done"} => Count(1, r) = 1
            ELSE Count(1, r) = 0

\* a finished run that read resolved and unresolved rows, exactly one of
\* them unresolved, and called the registry once
C2_Witness ==
    /\ pc = "done"
    /\ \E r \in Rows : ~IsNull(loaded[r]["mb_id"])
    /\ Cardinality({r \in Rows : IsNull(loaded[r]["mb_id"])}) = 1
    /\ Len(StageLog(1)) = 1

\* C3 (as stated): a run never scrapes a row whose detail scrape completed
\* in an earlier run that saved, whether or not a Genius link was found.
C3_NeverScrapedAgain ==
    pc = "stage2" =>
        \A i \in DOMAIN log : log[i].stage = 2 => log[i].row \notin scraped

\* C3 (amended): a run never scrapes a row whose genius_url was set in the
\* snapshot it read; a resolved row whose genius_url was null in that
\* snapshot, an earlier completed scrape without a link included, is scraped
\* once by a run that finishes.
C3_ScrapedAgainUnlessGeniusUrl ==
    pc \in {"stage2", "done"} =>
        \A r \in Rows :
            /\ ~IsNull(loaded[r]["genius_url"]) => Count(2, r) = 0
            /\ (/\ pc = "done"
                /\ r \in scraped
                /\ IsNull(loaded[r]["genius_url"])) => Count(2, r) = 1

\* a finished run that skipped a row with a link and scraped again a row
\* whose earlier scrape had found no link
C3_Witness ==
    /\ pc = "done"
    /\ \E r \in Rows : ~IsNull(loaded[r]["genius_url"]) /\ Count(2, r) = 0
    /\ \E r \in Rows :
          /\ ~IsNull(loaded[r]["wikidata_id"])
          /\ IsNull(loaded[r]["genius_url"])
          /\ Count(2, r) = 1

\* whether the fetch of a log entry ended in a transport or parse failure:
\* the request or the parsing raised, or the response was not a 200
FetchFailed(e) == e.outcome = "failure" \/ e.status # 200

\* C4: after a finished run, a row whose fetch failed in a stage has none of
\* that stage's fields written and is in the stage's work-list again.
C4_FailedFetchWritesNothing ==
    pc = "done" =>
        \A i \in DOMAIN log :
            FetchFailed(log[i]) =>
                /\ \A c \in StageFields(log[i].stage) :
                      disk[log[i].row][c] = loaded[log[i].row][c]
                /\ log[i].stage = 1 =>
                      \E j \in DOMAIN PendingRegistry(disk) :
                          PendingRegistry(disk)[j] = log[i].row
                /\ log[i].stage = 2 =>
                      \E j \in DOMAIN PendingDetail(disk) :
                          PendingDetail(disk)[j] = log[i].row
\* C5: each loop handles the items of its work-list once, in row order, one
\* after the other; nothing an item raises ends the run (a run is aborted
\* only before the first item), a loop can always take its next step, and a
\* finished run has handled both work-lists and saved.
C5_LoopHandlesEveryItem ==
    /\ pc = "stage1" =>
          /\ work = PendingRegistry(loaded)
          /\ RowsOf(log) = SubSeq(work, 1, idx - 1)
    /\ pc \in {"stage2", "done"} =>
          /\ RowsOf(StageLog(1)) = PendingRegistry(loaded)
          /\ \A i, j \in DOMAIN work : i < j => work[i] < work[j]
    /\ pc = "stage2" => RowsOf(StageLog(2)) = SubSeq(work, 1, idx - 1)
    /\ pc = "done" => RowsOf(StageLog(2)) = work /\ writes = 1
    /\ pc = "aborted" => log = <<>>
    /\ pc \in {"stage1", "stage2"} =>
          ENABLED (RegistryItem \/ RegistryEnd \/ DetailItem \/ Save)

\* a finished run in which an item failed and a later item of the same loop
\* was handled
C5_Witness ==
    /\ pc = "done"
    /\ \E i, j \in DOMAIN log :
          /\ i < j
          /\ log[i].outcome = "failure"
          /\ log[j].stage = log[i].stage

\* C6: in scrape_genius and scrape_riaa no error of a row or page ends the
\* run: a run is never aborted by what a request or the parsing raises.
C6_SiblingErrorsContained ==
    /\ ~(gpc = "aborted" /\ gcause = "row")
    /\ rpc # "aborted"

\* C7: in the registry loop a falsy result writes no field, is followed by
\* the 30 s sleep and by no diagnostic, and the loop goes on to the next
\* item; a dictionary result is followed by no sleep.
C7_EmptyResultBacksOff ==
    \A i \in DOMAIN log :
        log[i].stage = 1 =>
            /\ log[i].outcome = "empty" =>
                  /\ log[i].sleep = 30
                  /\ log[i].printed = None
                  /\ \A c \in Columns : df[log[i].row][c] = loaded[log[i].row][c]
                  /\ pc \in {"stage2", "done"} =>
                        Len(StageLog(1)) = Len(PendingRegistry(loaded))
            /\ log[i].outcome = "success" => log[i].sleep = 0

\* a finished run whose registry loop handled an item after a falsy result
C7_Witness ==
    /\ pc = "done"
    /\ \E i \in DOMAIN log :
          /\ log[i].stage = 1
          /\ log[i].outcome = "empty"
          /\ i + 1 \in DOMAIN log
          /\ log[i + 1].stage = 1

\* an entry of the registry loop whose response had a status other than 200
Non200(e) == e.stage = 1 /\ e.status \notin {0, 200}

\* C8 (as stated): a non-200 registry response is handled as a failure: the
\* artist is printed and the loop sleeps 10 s.
C8_Non200IsFailure ==
    \A i \in DOMAIN log :
        Non200(log[i]) =>
            /\ log[i].outcome = "failure"
            /\ log[i].printed = df[log[i].row]["artist"]
            /\ log[i].sleep = 10

\* C8 (amended): a non-200 registry response is handled as the falsy
\* result: nothing is printed, the loop sleeps 30 s, no field is written,
\* and after the save the row is in the registry work-list again.
C8_Non200IsEmpty ==
    \A i \in DOMAIN log :
        Non200(log[i]) =>
            /\ log[i].outcome = "empty"
            /\ log[i].printed = None
            /\ log[i].sleep = 30
            /\ \A c \in Columns : df[log[i].row][c] = loaded[log[i].row][c]
            /\ pc = "done" =>
                  \E j \in DOMAIN PendingRegistry(disk) :
                      PendingRegistry(disk)[j] = log[i].row

\* a finished run whose registry loop got a non-200 response
C8_Witness ==
    /\ pc = "done"
    /\ \E i \in DOMAIN log : Non200(log[i])

\* a marker of snapshot a that is set has the same value in snapshot b
MarkersKept(a, b) ==
    \A r \in Rows :
        \A c \in {"mb_id", "genius_url"} : ~IsNull(a[r][c]) => b[r][c] = a[r][c]

ResolvedThisRun(r) ==
    \E i \in DOMAIN log :
        log[i].stage = 1 /\ log[i].row = r /\ log[i].outcome = "success"

\* C10: the detail work-list is the rows with genius_url null and mb_id set
\* after the registry loop, those resolved by this run included; the detail
\* scrape is never called for a row without mb_id; a row resolved by this
\* run is scraped by it.
C10_DetailWorkList ==
    pc \in {"stage2", "done"} =>
        /\ work = SelectSeq(AllRows,
                     LAMBDA r : /\ IsNull(loaded[r]["genius_url"])
                                /\ ~IsNull(loaded[r]["mb_id"]) \/ ResolvedThisRun(r))
        /\ \A i \in DOMAIN log :
              log[i].stage = 2 => ~IsNull(df[log[i].row]["mb_id"])
        /\ pc = "done" => \A r \in Rows : ResolvedThisRun(r) => Count(2, r) = 1

\* a finished run that resolved a row and scraped its details
C10_Witness ==
    /\ pc = "done"
    /\ \E r \in Rows :
          IsNull(loaded[r]["mb_id"]) /\ ResolvedThisRun(r) /\ Count(2, r) = 1

\* the name similarity line 62 scores candidate i of the answer with
Similarity(i) ==
    TokenSortRatio(Lower(lname), Lower(lres.dict["artists"][i]["name"]))

\* a call has returned that had a non-empty candidate list to select from
Selected == lpc = "done" /\ HasCandidateList(lres) /\ lres.dict["artists"] # <<>>

\* C11: when the first candidate of the answer has score 100, the call selects
\* the first candidate and returns its record, whatever the other candidates
\* are.
C11_ExactScoreShortCircuit ==
    (Selected /\ lres.dict["artists"][1]["score"] = ExactScore)
        => /\ lidx = 1
           /\ lout = Returned(QueryDict(lres.dict["artists"][1]))

\* the first candidate has score 100 and a later one is strictly more similar
\* to the query
C11_Witness ==
    /\ Selected
    /\ lres.dict["artists"][1]["score"] = ExactScore
    /\ lidx = 1
    /\ \E j \in 2 .. Len(lres.dict["artists"]) :
          RatioGreater(Similarity(j), Similarity(1))

\* C12: when no candidate of a non-empty answer has score 100, the call
\* selects a candidate of maximal name similarity (lower-cased, token order
\* ignored), the first of them in registry order, and returns its record; it
\* selects one however low the best similarity is.
C12_FuzzyFirstMaximal ==
    (Selected /\ \A i \in 1 .. Len(lres.dict["artists"]) :
                    lres.dict["artists"][i]["score"] # ExactScore)
        => /\ lidx \in 1 .. Len(lres.dict["artists"])
           /\ \A j \in 1 .. Len(lres.dict["artists"]) :
                 ~RatioGreater(Similarity(j), Similarity(lidx))
           /\ \A j \in 1 .. lidx - 1 :
                 RatioGreater(Similarity(lidx), Similarity(j))
           /\ lout = Returned(QueryDict(lres.dict["artists"][lidx]))

\* two candidates tie at the maximal similarity, none has score 100, neither
\* name equals the query as written, and the first of the two is selected
C12_Witness ==
    /\ Selected
    /\ \A i \in 1 .. Len(lres.dict["artists"]) :
          lres.dict["artists"][i]["score"] # ExactScore
    /\ Len(lres.dict["artists"]) >= 2
    /\ lres.dict["artists"][1]["name"] # lres.dict["artists"][2]["name"]
    /\ ~RatioGreater(Similarity(1), Similarity(2))
    /\ ~RatioGreater(Similarity(2), Similarity(1))
    /\ \A j \in 1 .. Len(lres.dict["artists"]) :
          ~RatioGreater(Similarity(j), Similarity(1))
    /\ lidx = 1

\* C13: a call whose answer is a successfully parsed empty candidate list
\* returns None and does not raise.
C13_EmptyListReturnsNone ==
    (lpc = "done" /\ HasCandidateList(lres) /\ lres.dict["artists"] = <<>>)
        => lout = Returned(None)

\* the rows one row expands to, as the reference expansion defines them
RefGroup(r, mapping) ==
    IF r["artist"] \in DOMAIN mapping
    THEN [j \in 1 .. Len(mapping[r["artist"]]) |->
            [r EXCEPT !["artist"] = mapping[r["artist"]][j]]]
    ELSE <<r>>

\* the reference expansion: the groups of the rows, in row order
RECURSIVE RefExpand(_, _)
RefExpand(rows, mapping) ==
    IF rows = <<>> THEN <<>>
    ELSE RefGroup(Head(rows), mapping) \o RefExpand(Tail(rows), mapping)

\* sum over the rows of len(mapping[artist]) if the artist is a key, else 1
RECURSIVE RefCount(_, _)
RefCount(rows, mapping) ==
    IF rows = <<>> THEN 0
    ELSE (IF Head(rows)["artist"] \in DOMAIN mapping
          THEN Len(mapping[Head(rows)["artist"]])
          ELSE 1) + RefCount(Tail(rows), mapping)

\* every value of the mapping has at least one name
ValuesNonEmpty == \A k \in DOMAIN emap : Len(emap[k]) >= 1

\* C14: for a mapping whose values have at least one name, the rows
\* expand_with_dict returns are the reference expansion of the input rows (a
\* key row gives one row per mapped name, in mapping order, the other fields
\* copied; any other row gives itself; groups in row order), their number is
\* the reference count, and the columns are those of the input.
C14_ExpandEqualsReference ==
    (epc = "expanded" /\ ValuesNonEmpty)
        => /\ eout.rows = RefExpand(edf.rows, emap)
           /\ Len(eout.rows) = RefCount(edf.rows, emap)
           /\ {eout.cols[i] : i \in 1 .. Len(eout.cols)}
                = {edf.cols[i] : i \in 1 .. Len(edf.cols)}

\* a key row with two mapped names is followed by a row that is not a key,
\* and the two rows differ in the other field
C14_Witness ==
    /\ epc = "expanded"
    /\ ValuesNonEmpty
    /\ Len(edf.rows) = 2
    /\ edf.rows[1]["artist"] \in DOMAIN emap
    /\ Len(emap[edf.rows[1]["artist"]]) = 2
    /\ edf.rows[2]["artist"] \notin DOMAIN emap
    /\ edf.rows[1]["x"] # edf.rows[2]["x"]
    /\ Len(eout.rows) = 3
    /\ eout.rows[3] = edf.rows[2]

\* C15 as claimed: for every table and every mapping, expanding the result
\* again changes nothing.
C15_ExpandIdempotent ==
    epc = "expanded" => eout2 = eout

\* no name a key is mapped to is itself a key
NoValueIsKey ==
    \A k \in DOMAIN emap : \A j \in 1 .. Len(emap[k]) : emap[k][j] \notin DOMAIN emap

\* C15: for every table and every mapping in which no mapped name is itself
\* a key, expanding the result again changes nothing.
C15_ExpandIdempotentNoValueKey ==
    (epc = "expanded" /\ NoValueIsKey) => eout2 = eout

\* a key row was expanded into two rows, and the second expansion left them
C15_Witness ==
    /\ epc = "expanded"
    /\ NoValueIsKey
    /\ \E i \in 1 .. Len(edf.rows) :
          /\ edf.rows[i]["artist"] \in DOMAIN emap
          /\ Len(emap[edf.rows[i]["artist"]]) = 2
    /\ Len(eout.rows) > Len(edf.rows)
    /\ eout2 = eout

\* C16: in the table lines 153-205 construct, no two rows have the same
\* artist.
C16_ArtistUniqueAfterBuild ==
    epc = "built"
        => \A i \in 1 .. Len(ebuilt) : \A j \in 1 .. Len(ebuilt) :
              ebuilt[i]["artist"] = ebuilt[j]["artist"] => i = j

\* C17: a run started with --override_data is not ended before the split
\* mapping is obtained (from the collaborator or from the cache), the table
\* is expanded and the crawl stages start.
C17_OverrideRunReachesCrawl ==
    pc # "aborted"

\* C18: within a run no registry lookup is handled after a detail scrape, and
\* the snapshot file is written by one step only: the one that follows the
\* last item of the detail loop, which is the run's first and only write.
C18_LookupsScrapesOneSave ==
    [][/\ (Len(log') = Len(log) + 1 /\ log'[Len(log')].stage = 1)
            => \A i \in DOMAIN log : log[i].stage = 1
       /\ (disk' # disk \/ writes' > writes)
            => /\ pc = "stage2" /\ pc' = "done"
               /\ idx > Len(work)
               /\ Len(StageLog(2)) = Len(work)
               /\ writes = 0 /\ writes' = 1
       /\ pc' = "done" => writes' = 1]_vars

\* a finished run that handled a registry lookup and a detail scrape, wrote
\* once, and changed the snapshot file
C18_Witness ==
    /\ pc = "done"
    /\ StageLog(1) # <<>>
    /\ StageLog(2) # <<>>
    /\ writes = 1
    /\ disk # loaded

\* a stored identifier: neither null nor the empty string
NonEmpty(v) == ~IsNull(v) /\ v # <<>>

\* C19: handling one item changes only that item's row and only the fields of
\* the item's stage (the eight registry fields, or wikidata_id, discogs_id
\* and genius_url), and a detail scrape never replaces a non-empty
\* wikidata_id or discogs_id of the row by an empty value.
C19_CrawlFrame ==
    [][Len(log') = Len(log) + 1 =>
         LET e == log'[Len(log')] IN
           /\ \A q \in Rows \ {e.row} : df'[q] = df[q]
           /\ \A c \in Columns \ StageFields(e.stage) :
                 df'[e.row][c] = df[e.row][c]
           /\ e.stage = 2 =>
                 \A c \in {"wikidata_id", "discogs_id"} :
                    NonEmpty(df[e.row][c]) => NonEmpty(df'[e.row][c])]_vars

\* the accumulator acc holds lists of one length under the keys cols, no
\* "error" key, and, while the loop runs and when it has finished, exactly
\* the n rows of the pages fetched without error
AccumulatorHolds(acc, cols, running, n) ==
    /\ DOMAIN acc = cols
    /\ \A k \in cols : acc[k].isList
    /\ \A k \in cols : Len(acc[k].items) = Len(acc["artist"].items)
    /\ running => Len(acc["artist"].items) = n

\* C20: in a run of any of the three page scrapers the column lists of the accumulator have
\* one length, no error dict is merged into it, a page that returned an error
\* contributes no rows and the rows of every page fetched without error are
\* kept; in the RIAA scrapers no combination of page outcomes (rows, empty
\* table, error dict) ends the loop through the merge.
C20_AccumulatorInvariant ==
    /\ (script \in {"riaa", "riaa_old"} /\ rpc # "idle") =>
          /\ AccumulatorHolds(riaa_data,
                 IF script = "riaa" THEN RiaaColumns ELSE AlbumColumns,
                 rpc \in {"loop", "done"}, rfetched)
          /\ rcause # "extend"
    /\ (script = "billboard" /\ bpc # "idle") =>
          AccumulatorHolds(billboard_data, ChartColumns,
                           bpc \in {"loop", "done"}, bfetched)

====
